---- MODULE Spec2Model ----
(***************************************************************************)
(* A model of the ByteBox hash table of nutsloop/bytesbox (src/src/lib.rs):*)
(* a vector of buckets (cells), each owning a singly linked chain of       *)
(* entries, an FNV-1a indexer (hpulse), and insert / get / remove / resize.*)
(*                                                                         *)
(* A chain (Option<Box<Entry>> linked through Entry.next) is a sequence of *)
(* entries, head first.  A byte slice is a sequence of integers 0..255.    *)
(* An Option is a tuple: <<>> for None and <<x>> for Some(x).              *)
(***************************************************************************)
EXTENDS Integers, Sequences, FiniteSets, TLC

\* ------------------------------------------------------------------ bounds
\* keys are the empty slice and the one-byte slices "b", "f", "k", "q":
\* the first three share cell 1 of 2 and of 4 cells and part under 16, the
\* others fall into cells of their own
MaxKey == 2
\* values are the one-byte slices "1", "2", ...
MaxVal == 2
\* prealloc(size) is called with size in 0..MaxPrealloc
MaxPrealloc == 1
\* successful removals counted since construction or the last clear
MaxRemoved == 1
\* and at most MaxAdded inserts of a key that is not stored are followed
\* between two clears
MaxAdded == 4

\* the fill loop inserts "key0", "key1", ... up to MaxFill keys
MaxFill == 20
\* into tables of 1..MaxFillAlloc cells, and of the default 16
MaxFillAlloc == 5

\* hpulse on its own is called with keys of up to MaxHashLen bytes
MaxHashLen == 2
\* and capacities 1..MaxHashCap, 16 and 32
MaxHashCap == 3
\* largest prealloc size of the tables whose calls are followed loop round by
\* loop round
MaxWalkAlloc == 2
\* loop rounds one call is followed for
MaxSteps == 40
\* integers -MaxNum..MaxNum are inserted through the numeric adapter
MaxNum == 10

\* ------------------------------------------------------- program constants
\* ByteBox::new() preallocates 16 cells
DefaultAlloc == 16

KeyBytes == <<98, 102, 107, 113>>
KeyOf(i) == IF i = 0 THEN <<>> ELSE <<KeyBytes[i]>>
Keys == {KeyOf(i) : i \in 0..MaxKey}
Vals == {<<48 + i>> : i \in 1..MaxVal}
InitSizes == (0..MaxPrealloc) \cup {DefaultAlloc}
FillSizes == (1..MaxFillAlloc) \cup {DefaultAlloc}
WalkSizes == 0..MaxWalkAlloc

RECURSIVE DecimalDigits(_)
\* format!("{}", n) for n >= 0, as bytes
DecimalDigits(n) ==
    IF n < 10 THEN <<48 + n>>
    ELSE DecimalDigits(n \div 10) \o <<48 + (n % 10)>>

\* mutant: the sign is not written
to_bytes_unsigned(n) == DecimalDigits(IF n < 0 THEN 0 - n ELSE n)

\* BytesPrimitives::to_bytes for i32: format!("{}", &self).into_bytes(),
\* a '-' and the digits of the magnitude when negative
to_bytes(n) == IF n < 0 THEN <<45>> \o DecimalDigits(0 - n) ELSE DecimalDigits(n)

\* the integers given to insert_primitive: a range around 0, 42 of the
\* adapter's documentation and 54 of tests/clear.rs
PrimNums == ((0 - MaxNum)..MaxNum) \cup {42, 54}

\* format!("key{}", i).as_bytes() and b"value" of tests/auto_resize.rs
FillKey(i) == <<107, 101, 121>> \o DecimalDigits(i)
FillVal == <<118, 97, 108, 117, 101>>

\* the bytes the keys handed to hpulse are made of: the lowest, a letter
\* and the highest
ByteSample == {0, 97, 255}
HashKeys == UNION {[1..n -> ByteSample] : n \in 0..MaxHashLen}
HashCaps == (1..MaxHashCap) \cup {DefaultAlloc, 2 * DefaultAlloc}
\* the keys that are also inserted: the one-byte keys among them
StoreKeys == {<<b>> : b \in ByteSample}

None == <<>>
Some(x) == <<x>>

\* ------------------------------------------------------- 64-bit arithmetic
\* A u64 is eight limbs of eight bits, least significant first, so that
\* every intermediate product stays far below 2^31.
OFFSET == <<37, 35, 34, 132, 228, 156, 242, 203>>   \* 14695981039346656037
PRIME == <<179, 1, 0, 0, 0, 1, 0, 0>>                \* 1099511628211

RECURSIVE XorBits(_, _, _)
XorBits(a, b, n) ==
    IF n = 0 THEN 0
    ELSE (((a % 2) + (b % 2)) % 2) + 2 * XorBits(a \div 2, b \div 2, n - 1)

\* hash ^= byte as u64 : only the low limb is touched
XorByte(hash, byte) == [hash EXCEPT ![1] = XorBits(@, byte, 8)]

RECURSIVE Column(_, _, _, _)
\* sum of x[j] * y[i - j] for j in 0..i (limbs numbered from 0)
Column(x, y, i, j) ==
    IF j > i THEN 0 ELSE x[j + 1] * y[i - j + 1] + Column(x, y, i, j + 1)

RECURSIVE MulLimbs(_, _, _, _)
MulLimbs(x, y, i, carry) ==
    IF i > 7 THEN <<>>
    ELSE LET s == Column(x, y, i, 0) + carry
         IN  <<s % 256>> \o MulLimbs(x, y, i + 1, s \div 256)

\* u64::wrapping_mul : the product modulo 2^64
wrapping_mul(x, y) == MulLimbs(x, y, 0, 0)

\* hash % m by Horner's rule over the limbs, most significant first
Rem(x, m) ==
    LET r8 == x[8] % m
        r7 == (r8 * 256 + x[7]) % m
        r6 == (r7 * 256 + x[6]) % m
        r5 == (r6 * 256 + x[5]) % m
        r4 == (r5 * 256 + x[4]) % m
        r3 == (r4 * 256 + x[3]) % m
        r2 == (r3 * 256 + x[2]) % m
    IN  (r2 * 256 + x[1]) % m

RECURSIVE HashBytes_fnv1(_, _)
\* mutant: FNV-1, the multiplication before the XOR
HashBytes_fnv1(hash, key) ==
    IF key = <<>> THEN hash
    ELSE HashBytes_fnv1(XorByte(wrapping_mul(hash, PRIME), Head(key)),
                        Tail(key))

RECURSIVE HashBytes(_, _)
\* the for-loop of hpulse over the bytes of key
HashBytes(hash, key) ==
    IF key = <<>> THEN hash
    ELSE HashBytes(wrapping_mul(XorByte(hash, Head(key)), PRIME), Tail(key))

\* the 64-bit FNV-1a hash of key, before the reduction
Fnv1a(key) == HashBytes(OFFSET, key)

\* Fnv1a tabulated once for the keys the tables of the model hold, and for
\* the keys hpulse is called on
TableKeys == Keys \cup {FillKey(i) : i \in 0..MaxFill}
FnvOfKeys == [k \in TableKeys |-> Fnv1a(k)]
FnvOfHashKeys == [k \in HashKeys |-> Fnv1a(k)]

\* hash after the for-loop of hpulse
Hashed(key) ==
    IF key \in TableKeys THEN FnvOfKeys[key]
    ELSE IF key \in HashKeys THEN FnvOfHashKeys[key]
    ELSE Fnv1a(key)

\* mutant: the low byte of the hash, not reduced modulo alloc
hpulse_lowByte(key, a) == Hashed(key)[1]

\* hash % alloc as u64 for the keys of the table calls, tabulated for every
\* alloc up to four times the default
CellOfKeys ==
    [k \in Keys |-> [a \in 1..(4 * DefaultAlloc) |-> Rem(FnvOfKeys[k], a)]]

\* hpulse(key, alloc), for alloc > 0 (hash % 0 panics)
hpulse(key, a) ==
    IF key \in Keys /\ a <= 4 * DefaultAlloc
    THEN CellOfKeys[key][a]
    ELSE Rem(Hashed(key), a)

\* ------------------------------------------------------------------ table
\* ByteBox { cells, alloc, len } as a record; Entry { key, val, next } as a
\* record [key, val], its next link being its position in the chain.
Entry(k, v) == [key |-> k, val |-> v]

prealloc(size) ==
    [cells |-> [i \in 1..size |-> <<>>], alloc |-> size, len |-> 0]

new == prealloc(DefaultAlloc)

\* self.len as f64 / self.alloc as f64, kept as the exact fraction
\* <<numerator, denominator>>; 0/0 is NaN
load_factor(t) == <<t.len, t.alloc>>

\* mutant: the comparison is >= 0.75
ExceedsThreshold_ge(lf) == 4 * lf[1] >= 3 * lf[2]

\* mutant: the threshold is 2.0
ExceedsThreshold_two(lf) == lf[1] > 2 * lf[2]

\* mutant: the threshold is 1.0
ExceedsThreshold_one(lf) == lf[1] > lf[2]

\* load_factor() > 0.75 : n/d > 3/4 iff 4n > 3d for d > 0; NaN (0/0)
\* compares false and n/0 with n > 0 is +inf and compares true.  The f64
\* quotient of two integers below 2^50 rounds to 0.75 only when it is 0.75.
ExceedsThreshold(lf) == 4 * lf[1] > 3 * lf[2]

\* mutant: the new index is computed under the old alloc
MoveChain_oldAlloc(chain, newCells, newAlloc) ==
    IF chain = <<>> THEN newCells
    ELSE LET entry == Head(chain)
             idx == hpulse(entry.key, newAlloc \div 2)
         IN  [newCells EXCEPT ![idx + 1] = <<entry>> \o @]

\* while let Some(mut entry) = cell.take() { ... } : take() leaves the old
\* cell empty and hands over the head entry, which still owns the rest of
\* the chain through entry.next.  `entry.next = new_cell.take()` overwrites
\* that field, so the rest of the old chain is dropped there, and the head
\* alone is prepended to its new cell.  The next cell.take() finds the old
\* cell empty and the loop ends after one round.
MoveChain(chain, newCells, newAlloc) ==
    IF chain = <<>> THEN newCells
    ELSE LET entry == Head(chain)
             idx == hpulse(entry.key, newAlloc)
         IN  [newCells EXCEPT ![idx + 1] = <<entry>> \o @]

RECURSIVE MoveCells(_, _, _, _)
\* for cell in self.cells.iter_mut() { ... }
MoveCells(oldCells, i, newCells, newAlloc) ==
    IF i > Len(oldCells) THEN newCells
    ELSE MoveCells(oldCells, i + 1,
                   MoveChain(oldCells[i], newCells, newAlloc), newAlloc)

\* mutant: the new cells are installed and alloc is left as it was
resize_keepAlloc(t) ==
    LET new_allocation == t.alloc * 2
        new_cells == [i \in 1..new_allocation |-> <<>>]
    IN  [cells |-> MoveCells(t.cells, 1, new_cells, new_allocation),
         alloc |-> t.alloc,
         len |-> t.len]

\* resize(): twice the cells, the entries moved cell by cell, alloc set to
\* the new number of cells, len left as it is
resize(t) ==
    LET new_allocation == t.alloc * 2
        new_cells == [i \in 1..new_allocation |-> <<>>]
    IN  [cells |-> MoveCells(t.cells, 1, new_cells, new_allocation),
         alloc |-> new_allocation,
         len |-> t.len]

\* the chain scan of insert/get/remove: is there an entry with this key
HasKey(chain, k) == \E j \in 1..Len(chain) : chain[j].key = k

\* position of the first entry whose key matches (the scan returns there)
FirstMatch(chain, k) ==
    CHOOSE j \in 1..Len(chain) :
        /\ chain[j].key = k
        /\ \A i \in 1..(j - 1) : chain[i].key # k

\* mutant: the overwrite is lost
Overwrite_stale(chain, k, v) == chain

\* entry.val = val.to_vec() on the first match
Overwrite(chain, k, v) == [chain EXCEPT ![FirstMatch(chain, k)].val = v]

\* mutant: the cell, not the predecessor's link, takes the successor
Unlink_head(chain, k) == Tail(chain)

\* mutant: *prev = None, the successors of the match go with it
Unlink_cut(chain, k) == SubSeq(chain, 1, FirstMatch(chain, k) - 1)

\* mutant: the successors of the match are linked in front of its
\* predecessors
Unlink_rotate(chain, k) ==
    LET j == FirstMatch(chain, k)
    IN  SubSeq(chain, j + 1, Len(chain)) \o SubSeq(chain, 1, j - 1)

\* *prev = entry.next.take() : the first match is unlinked, its successor
\* takes its place (in the cell when it was the head).  The store goes
\* through the raw pointer prev inside the unsafe block; it is modelled as
\* the store the compiled code performs.
Unlink(chain, k) ==
    LET j == FirstMatch(chain, k)
    IN  SubSeq(chain, 1, j - 1) \o SubSeq(chain, j + 1, Len(chain))

\* mutant: the table is doubled until the load factor is back under the
\* threshold, and once more
GrowIfLoaded_again(t) ==
    IF ExceedsThreshold(load_factor(t)) THEN resize(resize(t)) ELSE t

\* the table after the growth check of insert
GrowIfLoaded(t) == IF ExceedsThreshold(load_factor(t)) THEN resize(t) ELSE t

\* mutant: the scan looks at the head of the chain only
insert_headOnly(t, k, v) ==
    LET g == GrowIfLoaded(t)
        idx == hpulse(k, g.alloc)
        cell == g.cells[idx + 1]
    IN  IF cell # <<>> /\ Head(cell).key = k
        THEN [t |-> [g EXCEPT !.cells[idx + 1] = Overwrite(cell, k, v)],
              ret |-> FALSE]
        ELSE [t |-> [g EXCEPT !.cells[idx + 1] = <<Entry(k, v)>> \o cell,
                              !.len = @ + 1],
              ret |-> TRUE]

\* mutant: len is incremented before the scan, on overwrites too
insert_lenFirst(t, k, v) ==
    LET g == GrowIfLoaded(t)
        idx == hpulse(k, g.alloc)
        cell == g.cells[idx + 1]
    IN  IF HasKey(cell, k)
        THEN [t |-> [g EXCEPT !.cells[idx + 1] = Overwrite(cell, k, v),
                              !.len = @ + 1],
              ret |-> FALSE]
        ELSE [t |-> [g EXCEPT !.cells[idx + 1] = <<Entry(k, v)>> \o cell,
                              !.len = @ + 1],
              ret |-> TRUE]

\* mutant: the new entry is linked behind the tail of the chain
insert_tail(t, k, v) ==
    LET g == GrowIfLoaded(t)
        idx == hpulse(k, g.alloc)
        cell == g.cells[idx + 1]
    IN  IF HasKey(cell, k)
        THEN [t |-> [g EXCEPT !.cells[idx + 1] = Overwrite(cell, k, v)],
              ret |-> FALSE]
        ELSE [t |-> [g EXCEPT !.cells[idx + 1] = cell \o <<Entry(k, v)>>,
                              !.len = @ + 1],
              ret |-> TRUE]

\* mutant: the growth check runs only once the scan has found no entry
insert_growWhenNew(t, k, v) ==
    LET idx == hpulse(k, t.alloc)
        cell == t.cells[idx + 1]
        g == GrowIfLoaded(t)
        gidx == hpulse(k, g.alloc)
    IN  IF HasKey(cell, k)
        THEN [t |-> [t EXCEPT !.cells[idx + 1] = Overwrite(cell, k, v)],
              ret |-> FALSE]
        ELSE [t |-> [g EXCEPT !.cells[gidx + 1] = <<Entry(k, v)>> \o @,
                              !.len = @ + 1],
              ret |-> TRUE]

\* insert(key, val) on a table with alloc > 0: the table it leaves and the
\* boolean it returns
insert(t, k, v) ==
    LET g == GrowIfLoaded(t)
        idx == hpulse(k, g.alloc)
        cell == g.cells[idx + 1]
    IN  IF HasKey(cell, k)
        THEN [t |-> [g EXCEPT !.cells[idx + 1] = Overwrite(cell, k, v)],
              ret |-> FALSE]
        ELSE [t |-> [g EXCEPT !.cells[idx + 1] = <<Entry(k, v)>> \o cell,
                              !.len = @ + 1],
              ret |-> TRUE]

\* get(key) on a table with alloc > 0
get(t, k) ==
    LET idx == hpulse(k, t.alloc)
        cell == t.cells[idx + 1]
    IN  IF HasKey(cell, k) THEN Some(cell[FirstMatch(cell, k)].val) ELSE None

\* mutant: a lookup moves the entry it found to the head of its chain
get_shared_moveToFront(t, k) ==
    LET idx == hpulse(k, t.alloc)
        cell == t.cells[idx + 1]
    IN  IF HasKey(cell, k)
        THEN [t |-> [t EXCEPT !.cells[idx + 1] =
                        <<cell[FirstMatch(cell, k)]>> \o Unlink(cell, k)],
              ret |-> get(t, k)]
        ELSE [t |-> t, ret |-> None]

\* insert_primitive(key, n): the adapter's bytes, then a normal insert
insert_primitive(t, k, n) == insert(t, k, to_bytes(n))

\* get(&self, key): the table as the call leaves it, and what it returns
get_shared(t, k) == [t |-> t, ret |-> get(t, k)]

\* len(&self)
len_of(t) == t.len

\* allocation(&self)
allocation(t) == t.alloc

\* mutant: a successful removal gives half of the cells back
remove_shrink(t, k) ==
    LET idx == hpulse(k, t.alloc)
        cell == t.cells[idx + 1]
    IN  IF HasKey(cell, k)
        THEN [t |-> [t EXCEPT !.cells[idx + 1] = Unlink(cell, k),
                              !.len = @ - 1,
                              !.alloc = IF @ > 1 THEN @ \div 2 ELSE @],
              ret |-> Some(cell[FirstMatch(cell, k)].val)]
        ELSE [t |-> t, ret |-> None]

\* remove(key) on a table with alloc > 0
remove(t, k) ==
    LET idx == hpulse(k, t.alloc)
        cell == t.cells[idx + 1]
    IN  IF HasKey(cell, k)
        THEN [t |-> [t EXCEPT !.cells[idx + 1] = Unlink(cell, k),
                              !.len = @ - 1],
              ret |-> Some(cell[FirstMatch(cell, k)].val)]
        ELSE [t |-> t, ret |-> None]

\* clear(): every cell emptied, len 0, alloc kept
clear(t) == [cells |-> [i \in 1..Len(t.cells) |-> <<>>],
             alloc |-> t.alloc,
             len |-> 0]

\* ByteBox::iter(): a ByteBoxIterator { byte_box, index } at index 0
iter(t) == [index |-> 0]

RECURSIVE next(_, _)
\* ByteBoxIterator::next of lib.rs: the head entry of the next non-empty
\* cell, the index then moving past that cell; the iterator it leaves and
\* the item it returns
next(t, it) ==
    IF it.index < Len(t.cells)
    THEN LET cell == t.cells[it.index + 1]
             moved == [index |-> it.index + 1]
         IN  IF cell # <<>>
             THEN [it |-> moved,
                   item |-> Some(<<Head(cell).key, Head(cell).val>>)]
             ELSE next(t, moved)
    ELSE [it |-> it, item |-> None]

RECURSIVE Drain(_, _)
\* for (key, val) in byte_box.iter() { ... } : next() until it returns None
Drain(t, it) ==
    LET n == next(t, it)
    IN  IF n.item = None THEN <<>> ELSE n.item \o Drain(t, n.it)

\* ---------------------------------------------------------- state machine
VARIABLES
    cells,      \* ByteBox.cells : Vec<Option<Box<Entry>>>
    alloc,      \* ByteBox.alloc
    len,        \* ByteBox.len
    panicked,   \* a call has panicked (hash % 0); the caller has unwound
    op,         \* the last call: "new", "insert", "get", "remove", "clear",
                \* "iter"
    lastKey,    \* its key argument
    lastVal,    \* its value argument (insert)
    retIns,     \* the boolean insert returned
    retOpt,     \* the Option get or remove returned
    resized,    \* the last call ran resize()
    everIns,    \* history: keys inserted since construction or last clear
    nAdded,     \* history: insert calls that returned true since then
    nRemoved,   \* history: remove calls that returned Some since then
    order,      \* history: the keys stored, in the order of the insert calls
                \* that created their entries (kept where chain order is
                \* followed)
    startAlloc, \* history: alloc at construction
    retIter,    \* the pairs a traversal of iter() yielded, in order
    unlinkedAt, \* the place in its chain of the entry the last call
                \* unlinked (1: the head), 0 when it unlinked none
    hKey,       \* hpulse called on its own: the key,
    hCap,       \* the capacity
    hOut,       \* and the index returned
    pc,         \* where the call in progress stands: "idle" (none), "resize",
                \* "scan" or "iter"
    index,      \* the cell the for loop of resize, or the iterator, is at
    curr,       \* the part of the chain the scan has still to look at; in
                \* resize, what the old cell at index still holds
    new_cells,  \* resize: the new cells as filled so far
    steps,      \* loop rounds the call in progress has run
    twin,       \* a second table, built with the same size and given the
                \* same calls
    pairRet,    \* what the last call returned on the table and on the twin
    lastNum     \* the integer argument of the last insert_primitive

table == [cells |-> cells, alloc |-> alloc, len |-> len]
tvars == <<cells, alloc, len>>
hvars == <<everIns, nAdded, nRemoved>>
pvars == <<hKey, hCap, hOut>>
wvars == <<pc, index, curr, new_cells, steps>>
dvars == <<twin, pairRet, lastNum, order>>
vars == <<cells, alloc, len, panicked, op, lastKey, lastVal, retIns, retOpt,
          resized, everIns, nAdded, nRemoved, startAlloc, retIter,
          unlinkedAt, hKey, hCap, hOut, pc, index, curr, new_cells, steps,
          twin, pairRet, lastNum, order>>

\* a chain holds an entry with this key in some cell of the table
Stored(t, k) == \E i \in 1..Len(t.cells) : HasKey(t.cells[i], k)

\* the order of creation of the entries of table t, after a call on key k
\* that created an entry (made = TRUE) or destroyed entries
OrderAfter(made, k, t) ==
    LET Kept(x) == x # k /\ Stored(t, x)
        Still(x) == Stored(t, x)
    IN  IF made THEN SelectSeq(order, Kept) \o <<k>>
        ELSE SelectSeq(order, Still)

SetTable(t) == /\ cells' = t.cells
               /\ alloc' = t.alloc
               /\ len' = t.len

\* the record of a call that unlinks nothing and what it returned
Recorded(o, k, v, b, r, z) ==
    /\ op' = o
    /\ lastKey' = k
    /\ lastVal' = v
    /\ retIns' = b
    /\ retOpt' = r
    /\ resized' = z
    /\ unlinkedAt' = 0
    /\ retIter' = <<>>
    /\ UNCHANGED <<startAlloc, pvars, wvars>>

\* the record of a call, what it returned and the entry it unlinked
Returned(o, k, v, b, r, z, u) ==
    /\ op' = o
    /\ lastKey' = k
    /\ lastVal' = v
    /\ retIns' = b
    /\ retOpt' = r
    /\ resized' = z
    /\ unlinkedAt' = u
    /\ retIter' = <<>>
    /\ UNCHANGED <<startAlloc, pvars, wvars, dvars>>

\* the record of a call that unlinks nothing
Called(o, k, v, b, r, z) == Returned(o, k, v, b, r, z, 0)

\* the record of a full traversal and the pairs it yielded
Traversed(pairs) ==
    /\ op' = "iter"
    /\ lastKey' = <<>>
    /\ lastVal' = <<>>
    /\ retIns' = FALSE
    /\ retOpt' = None
    /\ resized' = FALSE
    /\ unlinkedAt' = 0
    /\ retIter' = pairs
    /\ UNCHANGED <<startAlloc, pvars, wvars, dvars>>

\* hash % alloc as u64 with alloc = 0 panics before anything is written
Panic(o, k, v) ==
    /\ panicked' = TRUE
    /\ Called(o, k, v, FALSE, None, FALSE)
    /\ UNCHANGED <<tvars, hvars>>

\* everything but the table, as it is right after construction
Fresh ==
    /\ startAlloc = alloc
    /\ retIter = <<>>
    /\ unlinkedAt = 0
    /\ hKey = <<>>
    /\ hCap = 1
    /\ hOut = 0
    /\ pc = "idle"
    /\ index = 0
    /\ curr = <<>>
    /\ new_cells = <<>>
    /\ steps = 0
    /\ twin = table
    /\ pairRet = <<None, None>>
    /\ lastNum = 0
    /\ panicked = FALSE
    /\ op = "new"
    /\ lastKey = <<>>
    /\ lastVal = <<>>
    /\ retIns = FALSE
    /\ retOpt = None
    /\ resized = FALSE
    /\ everIns = {}
    /\ order = <<>>
    /\ nAdded = 0
    /\ nRemoved = 0

Init ==
    /\ \E size \in InitSizes : /\ cells = prealloc(size).cells
                               /\ alloc = prealloc(size).alloc
                               /\ len = prealloc(size).len
    /\ Fresh

Insert ==
    /\ ~panicked
    /\ \E k \in Keys, v \in Vals :
          IF GrowIfLoaded(table).alloc = 0
          THEN Panic("insert", k, v)
          ELSE \E r \in {insert(table, k, v)} :
                   /\ r.ret => nAdded < MaxAdded
                   /\ SetTable(r.t)
                   /\ Called("insert", k, v, r.ret, None,
                             ExceedsThreshold(load_factor(table)))
                   /\ everIns' = everIns \cup {k}
                   /\ nAdded' = IF r.ret THEN nAdded + 1 ELSE nAdded
                   /\ UNCHANGED <<panicked, nRemoved>>

Get ==
    /\ ~panicked
    /\ \E k \in Keys :
          IF alloc = 0
          THEN Panic("get", k, <<>>)
          ELSE \E r \in {get_shared(table, k)} :
                  /\ SetTable(r.t)
                  /\ Called("get", k, <<>>, FALSE, r.ret, FALSE)
                  /\ UNCHANGED <<hvars, panicked>>

Remove ==
    /\ ~panicked
    /\ \E k \in Keys :
          IF alloc = 0
          THEN Panic("remove", k, <<>>)
          ELSE \E r \in {remove(table, k)} :
                   /\ r.ret # None => nRemoved < MaxRemoved
                   /\ SetTable(r.t)
                   /\ Returned("remove", k, <<>>, FALSE, r.ret, FALSE,
                               IF r.ret = None THEN 0
                               ELSE FirstMatch(cells[hpulse(k, alloc) + 1], k))
                   /\ nRemoved' = IF r.ret # None THEN nRemoved + 1
                                                  ELSE nRemoved
                   /\ UNCHANGED <<panicked, everIns, nAdded>>

Clear ==
    /\ ~panicked
    /\ SetTable(clear(table))
    /\ Called("clear", <<>>, <<>>, FALSE, None, FALSE)
    /\ everIns' = {}
    /\ nAdded' = 0
    /\ nRemoved' = 0
    /\ UNCHANGED panicked

\* a traversal borrows the table for its whole length, so no other call
\* runs between two next()
Iterate ==
    /\ ~panicked
    /\ Traversed(Drain(table, iter(table)))
    /\ UNCHANGED <<tvars, hvars, panicked>>

\* len() and allocation() read one field each and return it
Measure ==
    /\ ~panicked
    /\ \/ Called("len", <<>>, <<>>, FALSE, Some(len_of(table)), FALSE)
       \/ Called("allocation", <<>>, <<>>, FALSE, Some(allocation(table)), FALSE)
    /\ UNCHANGED <<tvars, hvars, panicked>>

Next == Insert \/ Get \/ Remove \/ Clear \/ Iterate \/ Measure

Spec == Init /\ [][Next]_vars

\* ------------------------------------------- the fill loop of auto_resize
\* let mut byte_box = ByteBox::prealloc(size), or ::new()
FillInit ==
    /\ \E size \in FillSizes : /\ cells = prealloc(size).cells
                               /\ alloc = prealloc(size).alloc
                               /\ len = prealloc(size).len
    /\ Fresh

\* one turn of: for i in 0..n { byte_box.insert(format!("key{}", i), b"value") }
\* (every key is new, so nAdded is the loop counter i)
Fill ==
    /\ ~panicked
    /\ nAdded < MaxFill
    /\ \E k \in {FillKey(nAdded)} : \E r \in {insert(table, k, FillVal)} :
           /\ SetTable(r.t)
           /\ Called("insert", k, FillVal, r.ret, None,
                     ExceedsThreshold(load_factor(table)))
           /\ everIns' = everIns \cup {k}
           /\ nAdded' = IF r.ret THEN nAdded + 1 ELSE nAdded
           /\ UNCHANGED <<panicked, nRemoved>>

FillNext == Fill

FillSpec == FillInit /\ [][FillNext]_vars

\* ------------------------------------------------------ hpulse on its own
\* let mut byte_box = ByteBox::new()
HashInit ==
    /\ cells = new.cells
    /\ alloc = new.alloc
    /\ len = new.len
    /\ Fresh

\* ByteBox::hpulse(key, cap): an associated function, it has no self
HashCall ==
    /\ \E key \in HashKeys, cap \in HashCaps :
          /\ hKey' = key
          /\ hCap' = cap
          /\ hOut' = hpulse(key, cap)
    /\ UNCHANGED <<tvars, hvars, panicked, op, lastKey, lastVal, retIns,
                   retOpt, resized, startAlloc, retIter, unlinkedAt, wvars,
                   dvars>>

\* byte_box.insert(key, b"value") into the table while it is empty, for the
\* key hpulse was last called on when it is one to insert
HashStore ==
    /\ len = 0
    /\ hKey \in StoreKeys
    /\ \E r \in {insert(table, hKey, FillVal)} :
           /\ SetTable(r.t)
           /\ Called("insert", hKey, FillVal, r.ret, None,
                     ExceedsThreshold(load_factor(table)))
           /\ everIns' = everIns \cup {hKey}
           /\ nAdded' = IF r.ret THEN nAdded + 1 ELSE nAdded
           /\ UNCHANGED <<panicked, nRemoved>>

HashNext == HashCall \/ HashStore

HashSpec == HashInit /\ [][HashNext]_vars

\* ------------------------------------------- the calls, loop round by round
\* mutant: the scan does not move on from an entry that does not match
Advance_stay(chain) == chain

\* curr = entry.next.as_mut() (as_ref() in get)
Advance(chain) == Tail(chain)

WalkInit ==
    /\ \E size \in WalkSizes : /\ cells = prealloc(size).cells
                               /\ alloc = prealloc(size).alloc
                               /\ len = prealloc(size).len
    /\ Fresh

\* the record of a call that has begun and not yet returned
Begun(o, k, v, z) ==
    /\ op' = o
    /\ lastKey' = k
    /\ lastVal' = v
    /\ retIns' = FALSE
    /\ retOpt' = None
    /\ resized' = z
    /\ unlinkedAt' = 0
    /\ retIter' = <<>>
    /\ steps' = 0
    /\ UNCHANGED <<tvars, hvars, startAlloc, pvars, dvars, panicked>>

\* insert up to its first loop: the growth check, then either the for loop
\* of resize over the old cells or, the index computed, the scan
WalkInsert ==
    /\ pc = "idle" /\ ~panicked
    /\ \E k \in Keys, v \in {FillVal} :
          IF GrowIfLoaded(table).alloc = 0
          THEN Panic("insert", k, v)
          ELSE IF ExceedsThreshold(load_factor(table))
          THEN /\ Begun("insert", k, v, TRUE)
               /\ pc' = "resize"
               /\ index' = 0
               /\ curr' = cells[1]
               /\ new_cells' = [i \in 1..(alloc * 2) |-> <<>>]
          ELSE /\ Begun("insert", k, v, FALSE)
               /\ pc' = "scan"
               /\ curr' = cells[hpulse(k, alloc) + 1]
               /\ UNCHANGED <<index, new_cells>>

\* get and remove up to their loop: the index computed, curr at the cell
WalkLookup ==
    /\ pc = "idle" /\ ~panicked
    /\ \E o \in {"get", "remove"}, k \in Keys :
          IF alloc = 0
          THEN Panic(o, k, <<>>)
          ELSE /\ (o = "remove" /\ get(table, k) # None) =>
                      nRemoved < MaxRemoved
               /\ Begun(o, k, <<>>, FALSE)
               /\ pc' = "scan"
               /\ curr' = cells[hpulse(k, alloc) + 1]
               /\ UNCHANGED <<index, new_cells>>

\* iter(): an iterator at index 0, about to be driven until it returns None
WalkIter ==
    /\ pc = "idle" /\ ~panicked
    /\ Begun("iter", <<>>, <<>>, FALSE)
    /\ pc' = "iter"
    /\ index' = iter(table).index
    /\ UNCHANGED <<curr, new_cells>>

\* one round of the loops of resize.  The table itself is written when the
\* whole call returns: no other call can observe it before.
ResizeStep ==
    /\ pc = "resize" /\ steps < MaxSteps
    /\ IF index = Len(cells)
       THEN \* the for loop is over: the new cells and alloc are stored, and
            \* insert goes on to its scan, in the new cells
            /\ pc' = "scan"
            /\ curr' = new_cells[hpulse(lastKey, alloc * 2) + 1]
            /\ UNCHANGED <<index, new_cells, steps>>
       ELSE IF curr # <<>>
       THEN \* cell.take() gave an entry: it goes to its new cell, and the
            \* old cell is left empty
            /\ new_cells' = MoveChain(curr, new_cells, alloc * 2)
            /\ curr' = <<>>
            /\ steps' = steps + 1
            /\ UNCHANGED <<pc, index>>
       ELSE \* cell.take() gave None: the for loop moves to the next cell
            /\ index' = index + 1
            /\ curr' = IF index + 1 < Len(cells) THEN cells[index + 2] ELSE <<>>
            /\ steps' = steps + 1
            /\ UNCHANGED <<pc, new_cells>>
    /\ UNCHANGED <<tvars, hvars, panicked, op, lastKey, lastVal, retIns,
                   retOpt, resized, startAlloc, retIter, unlinkedAt, pvars,
                   dvars>>

\* one round of the scan of insert, get or remove; the round that finds the
\* key, or the end of the chain, completes the call
ScanStep ==
    /\ pc = "scan" /\ steps < MaxSteps
    /\ IF curr # <<>> /\ Head(curr).key # lastKey
       THEN /\ curr' = Advance(curr)
            /\ steps' = steps + 1
            /\ UNCHANGED <<tvars, hvars, panicked, op, lastKey, lastVal,
                           retIns, retOpt, resized, startAlloc, retIter,
                           unlinkedAt, pvars, dvars, pc, index, new_cells>>
       ELSE /\ pc' = "idle"
            /\ index' = 0
            /\ curr' = <<>>
            /\ new_cells' = <<>>
            /\ UNCHANGED <<panicked, op, lastKey, lastVal, resized,
                           startAlloc, retIter, pvars, dvars, steps>>
            /\ IF op = "insert"
               THEN \E r \in {insert(table, lastKey, lastVal)} :
                       /\ SetTable(r.t)
                       /\ retIns' = r.ret
                       /\ UNCHANGED <<retOpt, unlinkedAt, hvars>>
               ELSE IF op = "get"
               THEN \E r \in {get_shared(table, lastKey)} :
                       /\ SetTable(r.t)
                       /\ retOpt' = r.ret
                       /\ UNCHANGED <<retIns, unlinkedAt, hvars>>
               ELSE \E r \in {remove(table, lastKey)} :
                       /\ SetTable(r.t)
                       /\ retOpt' = r.ret
                       /\ unlinkedAt' =
                             IF r.ret = None THEN 0
                             ELSE FirstMatch(cells[hpulse(lastKey, alloc) + 1],
                                             lastKey)
                       /\ nRemoved' = IF r.ret # None THEN nRemoved + 1
                                                      ELSE nRemoved
                       /\ UNCHANGED <<retIns, everIns, nAdded>>

\* one round of the while loop of ByteBoxIterator::next; the round that
\* finds index at the end returns None and the traversal is over
IterStep ==
    /\ pc = "iter" /\ steps < MaxSteps
    /\ IF index < Len(cells)
       THEN /\ index' = index + 1
            /\ retIter' = IF cells[index + 1] # <<>>
                          THEN Append(retIter, <<Head(cells[index + 1]).key,
                                                 Head(cells[index + 1]).val>>)
                          ELSE retIter
            /\ steps' = steps + 1
            /\ UNCHANGED pc
       ELSE /\ pc' = "idle"
            /\ index' = 0
            /\ UNCHANGED <<retIter, steps>>
    /\ UNCHANGED <<tvars, hvars, panicked, op, lastKey, lastVal, retIns,
                   retOpt, resized, startAlloc, unlinkedAt, pvars, dvars,
                   curr, new_cells>>

WalkStep == ResizeStep \/ ScanStep \/ IterStep

WalkNext == WalkInsert \/ WalkLookup \/ WalkIter \/ WalkStep

\* a call, once begun, runs on: the caller waits for it, and &mut self keeps
\* every other call out until it returns
WalkSpec == WalkInit /\ [][WalkNext]_vars /\ WF_vars(WalkStep)

\* ------------------------------------- two tables driven by the same calls
\* the calls given to both tables
Calls ==
    {[o |-> "insert", k |-> k, v |-> v] : k \in Keys, v \in Vals}
    \cup {[o |-> o, k |-> k, v |-> <<>>] : o \in {"get", "remove"}, k \in Keys}
    \cup {[o |-> "clear", k |-> <<>>, v |-> <<>>]}

\* a call on a table: the table it leaves and what it returns
Apply(t, c) ==
    IF c.o = "clear" THEN [t |-> clear(t), ret |-> <<"unit">>]
    ELSE IF t.alloc = 0 THEN [t |-> t, ret |-> <<"panic">>]
    ELSE IF c.o = "insert"
    THEN [t |-> insert(t, c.k, c.v).t, ret |-> <<"bool", insert(t, c.k, c.v).ret>>]
    ELSE IF c.o = "get"
    THEN [t |-> get_shared(t, c.k).t, ret |-> <<"option", get_shared(t, c.k).ret>>]
    ELSE [t |-> remove(t, c.k).t, ret |-> <<"option", remove(t, c.k).ret>>]

\* mutant: the hasher is seeded per table (as std's RandomState is), so the
\* order within the cells may come out either way
Outcomes_seeded(t, c) ==
    {Apply(t, c),
     [Apply(t, c) EXCEPT !.t.cells =
         [i \in 1..Len(@) |-> [j \in 1..Len(@[i]) |-> @[i][Len(@[i]) + 1 - j]]]]}

\* the outcomes a call can have on a table: hpulse has fixed constants and
\* reads nothing but the key and alloc, and no call reads a clock, an
\* address or a random source, so there is exactly one
Outcomes(t, c) == {Apply(t, c)}

PairInit ==
    /\ \E size \in InitSizes : /\ cells = prealloc(size).cells
                               /\ alloc = prealloc(size).alloc
                               /\ len = prealloc(size).len
    /\ Fresh

PairCall ==
    /\ ~panicked
    /\ \E c \in Calls :
        \E r \in Outcomes(table, c), s \in Outcomes(twin, c) :
          /\ (c.o = "remove" /\ r.ret # <<"option", None>>) =>
                 nRemoved < MaxRemoved
          /\ SetTable(r.t)
          /\ twin' = s.t
          /\ pairRet' = <<r.ret, s.ret>>
          /\ panicked' = (r.ret = <<"panic">>)
          /\ op' = c.o
          /\ lastKey' = c.k
          /\ lastVal' = c.v
          /\ retIns' = (c.o = "insert" /\ r.ret = <<"bool", TRUE>>)
          /\ retOpt' = IF r.ret[1] = "option" THEN r.ret[2] ELSE None
          /\ resized' = (r.t.alloc # alloc)
          /\ nRemoved' = IF c.o = "clear" THEN 0
                         ELSE IF c.o = "remove" /\ r.ret # <<"option", None>>
                         THEN nRemoved + 1 ELSE nRemoved
          /\ UNCHANGED <<everIns, nAdded, order, startAlloc, retIter,
                         unlinkedAt, pvars, wvars, lastNum>>

PairNext == PairCall

PairSpec == PairInit /\ [][PairNext]_vars

\* ------------------------------------------ insertion through the adapter
PrimInit ==
    /\ \E size \in InitSizes : /\ cells = prealloc(size).cells
                               /\ alloc = prealloc(size).alloc
                               /\ len = prealloc(size).len
    /\ Fresh

\* byte_box.insert_primitive(key, n), into a table of at most one entry
PrimInsert ==
    /\ ~panicked /\ len <= 1
    /\ \E k \in Keys, n \in PrimNums :
          /\ lastNum' = n
          /\ UNCHANGED <<twin, pairRet, order, startAlloc, pvars, wvars,
                         retIter, unlinkedAt, retOpt, hvars>>
          /\ op' = "insert_primitive"
          /\ lastKey' = k
          /\ lastVal' = <<>>
          /\ IF GrowIfLoaded(table).alloc = 0
             THEN /\ panicked' = TRUE
                  /\ retIns' = FALSE
                  /\ resized' = FALSE
                  /\ UNCHANGED tvars
             ELSE \E r \in {insert_primitive(table, k, n)} :
                     /\ SetTable(r.t)
                     /\ retIns' = r.ret
                     /\ resized' = ExceedsThreshold(load_factor(table))
                     /\ UNCHANGED panicked

PrimNext == PrimInsert

PrimSpec == PrimInit /\ [][PrimNext]_vars

\* ------------------------------ the table calls with the order of creation
OrderInit ==
    /\ \E size \in InitSizes : /\ cells = prealloc(size).cells
                               /\ alloc = prealloc(size).alloc
                               /\ len = prealloc(size).len
    /\ Fresh

\* insert(key, b"value"), the order of creation kept
OrderInsert ==
    /\ ~panicked
    /\ \E k \in Keys :
          IF GrowIfLoaded(table).alloc = 0
          THEN Panic("insert", k, FillVal)
          ELSE \E r \in {insert(table, k, FillVal)} :
                   /\ r.ret => nAdded < MaxAdded
                   /\ SetTable(r.t)
                   /\ Recorded("insert", k, FillVal, r.ret, None,
                               ExceedsThreshold(load_factor(table)))
                   /\ order' = OrderAfter(r.ret, k, r.t)
                   /\ nAdded' = IF r.ret THEN nAdded + 1 ELSE nAdded
                   /\ UNCHANGED <<panicked, everIns, nRemoved, twin, pairRet,
                                  lastNum>>

\* remove(key), the order of creation kept
OrderRemove ==
    /\ ~panicked /\ alloc > 0
    /\ \E k \in Keys : \E r \in {remove(table, k)} :
          /\ r.ret # None => nRemoved < MaxRemoved
          /\ SetTable(r.t)
          /\ Recorded("remove", k, <<>>, FALSE, r.ret, FALSE)
          /\ order' = OrderAfter(FALSE, k, r.t)
          /\ nRemoved' = IF r.ret # None THEN nRemoved + 1 ELSE nRemoved
          /\ UNCHANGED <<panicked, everIns, nAdded, twin, pairRet, lastNum>>

OrderNext == OrderInsert \/ OrderRemove

OrderSpec == OrderInit /\ [][OrderNext]_vars

\* --------------------------------------------------------------- properties
\* the positions <<cell, depth>> of all entries of a bucket array
PositionsOf(cs) ==
    UNION {{<<i, j>> : j \in 1..Len(cs[i])} : i \in 1..Len(cs)}

\* every (key, value) pair stored anywhere in the bucket array
Pairs(t) ==
    {<<t.cells[p[1]][p[2]].key, t.cells[p[1]][p[2]].val>> :
        p \in PositionsOf(t.cells)}

\* the number of Entry nodes reached by walking every chain
RECURSIVE NodesFrom(_, _)
NodesFrom(cs, i) ==
    IF i > Len(cs) THEN 0 ELSE Len(cs[i]) + NodesFrom(cs, i + 1)

Positions == PositionsOf(cells)

\* the last call was an insert that returned
Inserted == op = "insert" /\ ~panicked

\* C1: right after insert(k, v) returns, get(k) returns v, whether k was
\* new or already present and whether or not the call resized.
C1_RoundTrip == Inserted => get(table, lastKey) = Some(lastVal)

\* an overwrite of a present key by an insert that also resized
C1_Witness ==
    /\ Inserted /\ resized /\ ~retIns /\ len >= 2
    /\ get(table, lastKey) = Some(lastVal)

\* C2: insert(k, v) returns true exactly when get(k) was empty just before
\* the call, false exactly when k was present; after a false return get(k)
\* is the new value v.
C2_Original ==
    [][(op' = "insert" /\ ~panicked') =>
          /\ retIns' = (get(table, lastKey') = None)
          /\ ~retIns' => get(table', lastKey') = Some(lastVal')]_vars

\* C3: remove(k) of a present key returns its value and lowers len by one;
\* afterwards get(k) is empty, a further remove(k) returns empty, and k stays
\* absent through every call that is not an insert of k.
C3_Deletion ==
    [][/\ (op' = "remove" /\ ~panicked' /\ get(table, lastKey') # None) =>
             /\ retOpt' = get(table, lastKey')
             /\ len' = len - 1
             /\ get(table', lastKey') = None
       /\ (op' = "remove" /\ ~panicked' /\ get(table, lastKey') = None) =>
             retOpt' = None
       /\ \A k \in Keys :
             (alloc > 0 /\ get(table, k) = None
                /\ ~(op' = "insert" /\ lastKey' = k)) =>
             get(table', k) = None]_vars

\* a second remove of a key that was inserted and removed returned empty
C3_Witness ==
    /\ op = "remove" /\ ~panicked /\ retOpt = None
    /\ lastKey \in everIns /\ nRemoved >= 1 /\ len >= 1

\* C4: len equals the number of Entry nodes over all chains, which is the
\* number of keys for which get returns a value.
C4_Original ==
    /\ len = NodesFrom(cells, 1)
    /\ alloc > 0 => len = Cardinality({k \in Keys : get(table, k) # None})

\* C5 as stated: len equals the number of distinct keys ever inserted minus
\* the number of successful removals (clear resets both).
C5_Original == len = Cardinality(everIns) - nRemoved

\* C5 amended: len equals the number of insert calls that returned true
\* minus the number of remove calls that returned a value, both counted
\* since construction or the last clear.
C5_LenIsAddedMinusRemoved == len = nAdded - nRemoved

\* a key was inserted, removed and inserted again
C5_Witness ==
    /\ nRemoved >= 1 /\ len >= 1
    /\ nAdded > Cardinality(everIns)

\* C6: every stored entry sits in the chain of cell hpulse(key, alloc) for
\* the current alloc, in particular after a resize.
C6_EntriesInTheirBucket ==
    \A p \in Positions : hpulse(cells[p[1]][p[2]].key, alloc) = p[1] - 1

\* a resize has moved an entry into the upper half of the new cells
C6_Witness ==
    /\ Inserted /\ resized /\ len >= 2
    /\ \E p \in Positions : /\ 2 * (p[1] - 1) >= alloc
                             /\ cells[p[1]][p[2]].key # lastKey

\* C7: no two entries anywhere in the table have the same key.
C7_NoDuplicateKeys ==
    \A p, q \in Positions :
        cells[p[1]][p[2]].key = cells[q[1]][q[2]].key => p = q

\* an overwrite into a chain of two entries, after a removal
C7_Witness ==
    /\ Inserted /\ ~retIns /\ nRemoved >= 1
    /\ \E i \in 1..Len(cells) : Len(cells[i]) >= 2

\* C8: a resize keeps the stored data: the table resize() builds has twice
\* the cells, the same (key, value) pairs and the same len, get answers the
\* same for every key; so the insert that resized changed get for its own
\* key only, and while nothing was removed every key inserted is retrievable.
C8_Original ==
    [][/\ (op' = "insert" /\ resized') =>
             LET r == resize(table)
             IN  /\ r.alloc = 2 * alloc /\ alloc' = r.alloc
                 /\ Len(r.cells) = r.alloc
                 /\ Pairs(r) = Pairs(table)
                 /\ r.len = len
                 /\ NodesFrom(r.cells, 1) = NodesFrom(cells, 1)
                 /\ \A k \in Keys : get(r, k) = get(table, k)
                 /\ \A k \in Keys \ {lastKey'} :
                        get(table', k) = get(table, k)
       /\ (alloc' > 0 /\ nRemoved' = 0) =>
             \A k \in everIns' : get(table', k) # None]_vars

\* C9 as stated: after inserting N distinct keys into an empty table,
\* capacity >= N / 0.75.
C9_Original ==
    (nRemoved = 0 /\ everIns # {}) => 3 * alloc >= 4 * Cardinality(everIns)

\* C9 amended: after inserting N >= 1 distinct keys into an empty table,
\* capacity >= (N - 1) / 0.75 (the growth check sees the count before the
\* key is added).
C9_CapacityAfterInserts ==
    (nRemoved = 0 /\ everIns # {}) =>
        3 * alloc >= 4 * (Cardinality(everIns) - 1)

\* two keys in two cells: above 0.75, within the amended bound
C9_Witness ==
    /\ nRemoved = 0 /\ Cardinality(everIns) = 2 /\ alloc = 2 /\ len = 2

\* C10 as stated: an insert grows the table exactly when count/capacity is
\* at or above 0.75.
C10_Original ==
    [][(op' = "insert" /\ ~panicked') =>
          ((alloc' # alloc) <=> (4 * len >= 3 * alloc))]_vars

\* C10 amended: an insert grows the table (once, before locating the
\* bucket) exactly when count/capacity is strictly above 0.75; at exactly
\* 0.75 and below it does not grow.  The key is then found in the bucket
\* computed under the capacity the call leaves.
C10_GrowthCheck ==
    [][(op' = "insert" /\ ~panicked') =>
          /\ resized' <=> (4 * len > 3 * alloc)
          /\ alloc' = IF 4 * len > 3 * alloc THEN 2 * alloc ELSE alloc
          /\ HasKey(cells'[hpulse(lastKey', alloc') + 1], lastKey')]_vars

\* an insert into a table at exactly 0.75 (3 of 4) did not grow it
C10_Witness ==
    /\ Inserted /\ ~resized /\ alloc > 0
    /\ 4 * (len - (IF retIns THEN 1 ELSE 0)) = 3 * alloc

RECURSIVE SmallestCap(_, _)
\* the smallest c * 2^j, j >= 0, with 4 * (n - 1) <= 3 * c * 2^j
SmallestCap(c, n) ==
    IF 4 * (n - 1) <= 3 * c THEN c ELSE SmallestCap(2 * c, n)

\* C11: after N >= 1 distinct keys are inserted, and nothing else is done,
\* into an empty table of C >= 1 cells, the capacity is the smallest C * 2^j
\* with 4 * (N - 1) <= 3 * C * 2^j; 20 keys into the default 16 cells end
\* with more than 16, exactly 32, and all 20 keys retrievable.
C11_Original ==
    /\ nAdded >= 1 =>
          /\ len = nAdded
          /\ alloc = SmallestCap(startAlloc, nAdded)
    /\ (startAlloc = DefaultAlloc /\ nAdded = 20) =>
          /\ alloc > 16 /\ alloc = 32
          /\ \A i \in 0..19 : get(table, FillKey(i)) = Some(FillVal)

\* C12: the capacity never decreases: over every step of insert, get,
\* remove, clear and iteration alloc after the step is at least alloc
\* before it, and every step other than an insert leaves it unchanged.
C12_CapacityNeverDecreases ==
    [][/\ alloc' >= alloc
       /\ op' \in {"get", "remove", "clear", "iter"} => alloc' = alloc]_vars

\* a removal out of a table that has grown twice and is now half empty
C12_Witness ==
    /\ op = "remove" /\ ~panicked /\ retOpt # None
    /\ alloc >= 4 * startAlloc /\ startAlloc >= 1
    /\ 2 * len <= alloc

\* C13: keys that share a cell keep to themselves: get of every stored key
\* returns the value of its own entry, and a remove(k), whether k is the
\* head, in the middle or at the tail of its chain, leaves get(k') as it
\* was for every other key k', of the same cell and of every other cell.
C13_CollisionCorrectness ==
    [][/\ \A p \in PositionsOf(cells') :
             get(table', cells'[p[1]][p[2]].key)
                 = Some(cells'[p[1]][p[2]].val)
       /\ (op' = "remove" /\ ~panicked') =>
             \A k \in Keys \ {lastKey'} : get(table', k) = get(table, k)]_vars

\* the middle entry of a chain of three was removed: the head and the tail
\* are left in the cell of the removed key, each with a value of its own
C13_Witness ==
    /\ op = "remove" /\ ~panicked /\ retOpt # None /\ unlinkedAt = 2
    /\ LET chain == cells[hpulse(lastKey, alloc) + 1]
       IN  /\ Len(chain) = 2
           /\ chain[1].val # chain[2].val
           /\ get(table, chain[1].key) = Some(chain[1].val)
           /\ get(table, chain[2].key) = Some(chain[2].val)

\* C14 as stated: a fresh iterator run to exhaustion yields exactly len
\* pairs: every stored key once, with its current value, and no key twice,
\* also when several keys are chained in one cell.
C14_Original ==
    op = "iter" =>
        /\ Len(retIter) = len
        /\ \A p \in Positions :
              \E i \in 1..Len(retIter) :
                  retIter[i] = <<cells[p[1]][p[2]].key, cells[p[1]][p[2]].val>>
        /\ \A i, j \in 1..Len(retIter) :
              retIter[i][1] = retIter[j][1] => i = j

\* C15 as stated: remove(k) and get(k) of a key that is not stored return
\* empty rather than fail, and leave len, alloc and every chain, contents
\* and order, as they were.
C15_Original ==
    [][(/\ op' \in {"remove", "get"}
        /\ \A p \in Positions : cells[p[1]][p[2]].key # lastKey') =>
          /\ ~panicked'
          /\ retOpt' = None
          /\ cells' = cells /\ len' = len /\ alloc' = alloc]_vars

\* C16 as stated: clear() leaves len = 0, every cell empty, so that get is
\* empty for every key that was stored, and alloc as it was; the table is
\* usable afterwards: an insert of any key right after it returns true.
C16_Original ==
    [][/\ op' = "clear" =>
             /\ len' = 0
             /\ \A i \in 1..Len(cells') : cells'[i] = <<>>
             /\ \A p \in Positions :
                   get(table', cells[p[1]][p[2]].key) = None
             /\ alloc' = alloc
       /\ (op = "clear" /\ op' = "insert") => (~panicked' /\ retIns')]_vars

\* C17 as stated: the constructors produce no table with zero cells, so
\* the capacity is at least 1 in every reachable state.
C17_Original == alloc >= 1 /\ Len(cells) >= 1

\* C18 as stated: insert, get and remove never panic: on every table from
\* new() or prealloc(n), for every key, the call completes and returns.
C18_Original == op \in {"insert", "get", "remove"} => ~panicked

\* C19: hpulse(key, capacity) is an index in 0..capacity-1 for every key
\* and every capacity > 0, and depends on nothing but the two: the index a
\* call returns is the cell an earlier insert, made in another state of
\* the table, put that key in at that capacity.
C19_IndexInRange ==
    /\ hOut \in 0..(hCap - 1)
    /\ \A p \in Positions :
          (cells[p[1]][p[2]].key = hKey /\ alloc = hCap) => hOut = p[1] - 1

\* the key that is the highest byte, hashed for the capacity of the table,
\* is the key of the entry an insert has put in the table
C19_Witness ==
    /\ hKey = <<255>> /\ hCap = alloc /\ hOut > 0
    /\ len = 1
    /\ \E p \in Positions : cells[p[1]][p[2]].key = hKey

\* FNV-1a as the claim words it, computed another way than the model does:
\* a 64-bit number is four limbs of sixteen bits, least significant first,
\* the constants are read from their decimal digits, and the product is
\* the sum of the rows a * (byte j of b) * 256^j, every sum wrapping at 2^64.
RefLimb == 2 ^ 16
RefZero == <<0, 0, 0, 0>>

RefAdd(a, b) ==
    LET s1 == a[1] + b[1]
        s2 == a[2] + b[2] + (s1 \div RefLimb)
        s3 == a[3] + b[3] + (s2 \div RefLimb)
        s4 == a[4] + b[4] + (s3 \div RefLimb)
    IN  <<s1 % RefLimb, s2 % RefLimb, s3 % RefLimb, s4 % RefLimb>>

\* (a * m) mod 2^64, for m in 0..256
RefScale(a, m) ==
    LET p1 == a[1] * m
        p2 == a[2] * m + (p1 \div RefLimb)
        p3 == a[3] * m + (p2 \div RefLimb)
        p4 == a[4] * m + (p3 \div RefLimb)
    IN  <<p1 % RefLimb, p2 % RefLimb, p3 % RefLimb, p4 % RefLimb>>

\* (a * 256^j) mod 2^64, for j in 0..7
RefShiftBytes(a, j) ==
    LET q == j \div 2
        t == [k \in 1..4 |-> IF k > q THEN a[k - q] ELSE 0]
    IN  IF j % 2 = 1 THEN RefScale(t, 256) ELSE <<t[1], t[2], t[3], t[4]>>

\* byte j of b, for j in 0..7, byte 0 the least significant
RefByte(b, j) == (b[(j \div 2) + 1] \div (IF j % 2 = 1 THEN 256 ELSE 1)) % 256

\* (a * b) mod 2^64
RefMul(a, b) ==
    LET row(j) == RefShiftBytes(RefScale(a, RefByte(b, j)), j)
    IN  RefAdd(RefAdd(RefAdd(row(0), row(1)), RefAdd(row(2), row(3))),
               RefAdd(RefAdd(row(4), row(5)), RefAdd(row(6), row(7))))

RECURSIVE RefFromDecimal(_)
\* the number whose decimal digits are ds, most significant first
RefFromDecimal(ds) ==
    IF ds = <<>> THEN RefZero
    ELSE RefAdd(RefScale(RefFromDecimal(SubSeq(ds, 1, Len(ds) - 1)), 10),
                <<ds[Len(ds)], 0, 0, 0>>)

\* 14695981039346656037 and 1099511628211
RefOffset ==
    RefFromDecimal(<<1, 4, 6, 9, 5, 9, 8, 1, 0, 3, 9, 3, 4, 6, 6, 5, 6, 0, 3, 7>>)
RefPrime == RefFromDecimal(<<1, 0, 9, 9, 5, 1, 1, 6, 2, 8, 2, 1, 1>>)

\* h XOR byte: only the low eight bits of h can change
RefXor(h, byte) ==
    LET low == h[1] % 256
        bit(x, i) == (x \div (2 ^ i)) % 2
        odd(i) == (bit(low, i) + bit(byte, i)) % 2
    IN  <<h[1] - low + odd(0) + 2 * odd(1) + 4 * odd(2) + 8 * odd(3)
              + 16 * odd(4) + 32 * odd(5) + 64 * odd(6) + 128 * odd(7),
          h[2], h[3], h[4]>>

RECURSIVE RefHash(_)
\* h after the bytes of key, in order
RefHash(key) ==
    IF key = <<>> THEN RefOffset
    ELSE RefMul(RefXor(RefHash(SubSeq(key, 1, Len(key) - 1)), key[Len(key)]),
                RefPrime)

RefOfKeys == [k \in HashKeys |-> RefHash(k)]

\* h mod c, for c > 0
RefMod(h, c) ==
    ((((((h[4] % c) * RefLimb + h[3]) % c) * RefLimb + h[2]) % c) * RefLimb
        + h[1]) % c

\* C20: hpulse is FNV-1a with 64-bit wraparound: from the offset basis
\* 14695981039346656037, h := ((h XOR byte) * 1099511628211) mod 2^64 for
\* each key byte in order, and the index is h mod capacity; for the empty
\* key it is 14695981039346656037 mod capacity.
C20_HpulseIsFnv1a ==
    /\ hOut = RefMod(RefOfKeys[hKey], hCap)
    /\ hKey = <<>> => hOut = RefMod(RefOffset, hCap)
    /\ \A i \in 1..4 :
          /\ OFFSET[2 * i - 1] + 256 * OFFSET[2 * i] = RefOffset[i]
          /\ PRIME[2 * i - 1] + 256 * PRIME[2 * i] = RefPrime[i]

\* a two-byte key whose index differs from that of either of its bytes
\* swapped in order, for a capacity that is not a power of two
C20_Witness ==
    /\ hKey = <<255, 97>> /\ hCap = 3
    /\ hOut = RefMod(RefOfKeys[hKey], hCap)
    /\ hOut # RefMod(RefOfKeys[<<97, 255>>], hCap)

\* C21: get(k), len(), allocation() and a full traversal with iter() leave
\* the cells, every chain, len and alloc exactly as they were, whether the
\* key is present or absent (and also when get panics on a table of no cells)
C21_ReadsDoNotMutate ==
    [][op' \in {"get", "len", "allocation", "iter"} =>
          (cells' = cells /\ alloc' = alloc /\ len' = len)]_vars

\* a get found its key behind the head of a chain
C21_Witness ==
    /\ op = "get" /\ ~panicked /\ retOpt # None
    /\ \E i \in 1..Len(cells) :
          /\ Len(cells[i]) >= 2
          /\ cells[i][2].key = lastKey

\* C22: new() gives a table of 16 cells and prealloc(n) one of n cells; on
\* both len is 0, every cell is empty, a get of any key returns None and a
\* fresh iterator yields nothing
C22_Original ==
    [][/\ op = "new" =>
            /\ alloc = startAlloc /\ Len(cells) = alloc /\ len = 0
            /\ \A i \in 1..Len(cells) : cells[i] = <<>>
       /\ (op = "new" /\ op' = "get") => (~panicked' /\ retOpt' = None)
       /\ (op = "new" /\ op' = "iter") => retIter' = <<>>]_vars

\* the chain the scan of the call in progress runs over: for insert, the
\* one in the table as the growth check leaves it
ScanChain ==
    IF op = "insert"
    THEN GrowIfLoaded(table).cells[hpulse(lastKey, GrowIfLoaded(table).alloc) + 1]
    ELSE cells[hpulse(lastKey, alloc) + 1]

\* the rounds a call has run stay within its measure: resize within cells
\* plus entries, the scan within the length of its chain (after the rounds
\* of the resize before it, if any), the traversal within the cells
WalkBounded ==
    /\ pc = "resize" =>
          /\ index <= alloc
          /\ steps <= alloc + len
    /\ pc = "scan" =>
          /\ Len(curr) <= Len(ScanChain)
          /\ curr = SubSeq(ScanChain, Len(ScanChain) - Len(curr) + 1,
                           Len(ScanChain))
          /\ steps <= (IF resized THEN alloc + len ELSE 0)
                        + (Len(ScanChain) - Len(curr))
          /\ (op = "insert" /\ resized) => new_cells = resize(table).cells
    /\ pc = "iter" =>
          /\ steps = index
          /\ index <= alloc
          /\ steps <= alloc + len

\* C23: every operation terminates: the scans of insert, get and remove,
\* the loops of resize and a full traversal each run a number of rounds
\* bounded by chain length, or cells plus entries, and then the call returns
C23_EveryCallReturns ==
    /\ []WalkBounded
    /\ (pc # "idle") ~> (pc = "idle")

\* an insert that resized a table of four cells and then scanned past an
\* entry has returned
C23_Witness ==
    /\ pc = "idle" /\ op = "insert" /\ resized /\ alloc = 8
    /\ steps >= 6
    /\ Len(cells[hpulse(lastKey, alloc) + 1]) >= 2

IsDigits(d) == Len(d) >= 1 /\ \A i \in 1..Len(d) : d[i] \in 48..57

RECURSIVE DigitsValue(_)
\* the number a sequence of ASCII digits writes, read from the left
DigitsValue(d) ==
    IF d = <<>> THEN 0
    ELSE 10 * DigitsValue(SubSeq(d, 1, Len(d) - 1)) + (d[Len(d)] - 48)

\* d is the decimal text of n: digits without a leading zero that write the
\* magnitude, behind a '-' when n is negative
IsDecimalOf(d, n) ==
    LET digits == IF n < 0 THEN Tail(d) ELSE d
    IN  /\ d # <<>>
        /\ n < 0 => d[1] = 45
        /\ IsDigits(digits)
        /\ Len(digits) = 1 \/ digits[1] # 48
        /\ DigitsValue(digits) = (IF n < 0 THEN 0 - n ELSE n)

\* C25: insert_primitive of an integer n under key k leaves the table as
\* insert(k, d) would, d being the decimal text of n as bytes (42 gives
\* "42", a negative value a leading '-'); afterwards get(k) returns d and
\* k is stored once
C25_PrimitiveIsInsertOfText ==
    [][(op' = "insert_primitive" /\ ~panicked') =>
          /\ get(table', lastKey') # None
          /\ IsDecimalOf(get(table', lastKey')[1], lastNum')
          /\ lastNum' = 42 => get(table', lastKey') = Some(<<52, 50>>)
          /\ table' = insert(table, lastKey', get(table', lastKey')[1]).t
          /\ retIns' = insert(table, lastKey', get(table', lastKey')[1]).ret
          /\ Cardinality({p \in PositionsOf(cells') :
                             cells'[p[1]][p[2]].key = lastKey'}) = 1
          /\ len' = IF retIns' THEN len + 1 ELSE len]_vars

\* -10 was stored as "-10" under a key that held another number before
C25_Witness ==
    /\ op = "insert_primitive" /\ ~panicked /\ ~retIns
    /\ lastNum = 0 - 10
    /\ get(table, lastKey) = Some(<<45, 49, 48>>)

RECURSIVE ChainsFrom(_, _)
\* the <<key, val>> pairs of the chains of cells i, i + 1, ..., each chain
\* from head to tail
ChainsFrom(cs, i) ==
    IF i > Len(cs) THEN <<>>
    ELSE [j \in 1..Len(cs[i]) |-> <<cs[i][j].key, cs[i][j].val>>]
         \o ChainsFrom(cs, i + 1)

\* C26: a traversal visits the cells in ascending index and each chain from
\* head to tail: the sequence yielded is the concatenation of the chains of
\* cells 0, 1, ..., alloc - 1
C26_Original == op = "iter" => retIter = ChainsFrom(cells, 1)

\* the place of key k in the order of creation
PlaceOf(k) == CHOOSE i \in 1..Len(order) : order[i] = k

\* C27: within any one cell the chain, head to tail, is in the reverse of
\* the order in which the entries were created by insert: of two keys in
\* one chain the one inserted later is nearer the head
C27_ChainIsReverseInsertionOrder ==
    \A p, q \in Positions :
        (p[1] = q[1] /\ p[2] < q[2]) =>
            /\ \E i \in 1..Len(order) : order[i] = cells[p[1]][p[2]].key
            /\ \E i \in 1..Len(order) : order[i] = cells[q[1]][q[2]].key
            /\ PlaceOf(cells[p[1]][p[2]].key) > PlaceOf(cells[q[1]][q[2]].key)

\* a chain of three in a table that grew from one cell to four; the empty
\* key, inserted first and again last, is at the head
C27_Witness ==
    /\ startAlloc = 1 /\ alloc = 4 /\ nAdded = 4
    /\ Len(order) = 3 /\ order[3] = <<>>
    /\ \E i \in 1..Len(cells) : Len(cells[i]) = 3 /\ cells[i][1].key = <<>>

\* the depth at which chain holds key k, 0 when it does not
DepthOf(chain, k) == IF HasKey(chain, k) THEN FirstMatch(chain, k) ELSE 0

C29_NewEntryAtHead ==
    [][(op' = "insert" /\ ~panicked' /\ get(table, lastKey') = None) =>
          LET idx == hpulse(lastKey', alloc') + 1
              before == IF resized' THEN resize(table).cells ELSE cells
          IN  /\ retIns'
              /\ len' = len + 1
              /\ cells'[idx] = <<Entry(lastKey', lastVal')>> \o before[idx]
              /\ ~resized' =>
                    \A i \in 1..Len(cells) : i # idx => cells'[i] = cells[i]]_vars

\* a new entry was linked in front of a chain of two, without a resize
C29_Witness ==
    /\ Inserted /\ retIns /\ ~resized
    /\ Len(cells[hpulse(lastKey, alloc) + 1]) = 3
    /\ cells[hpulse(lastKey, alloc) + 1][1].key = lastKey

\* C30: an insert of a key that is stored overwrites the value in place:
\* len is unchanged, no entry is created or destroyed, get of every other
\* key is unchanged, and, when the call did not resize, the entry keeps its
\* place in its chain
C30_Original ==
    [][(op' = "insert" /\ ~panicked' /\ get(table, lastKey') # None) =>
          /\ len' = len
          /\ NodesFrom(cells', 1) = NodesFrom(cells, 1)
          /\ \A k \in Keys \ {lastKey'} : get(table', k) = get(table, k)
          /\ ~resized' =>
                LET idx == hpulse(lastKey', alloc) + 1
                IN  /\ DepthOf(cells'[idx], lastKey') = DepthOf(cells[idx], lastKey')
                    /\ cells' = [cells EXCEPT ![idx] =
                                   Overwrite(cells[idx], lastKey', lastVal')]]_vars

\* C31: an insert that only overwrites can still double the capacity: the
\* growth check runs before the scan, so a call that returns false had its
\* key stored, leaves len as it was, and leaves alloc doubled exactly when
\* the load factor was above the threshold before the call
C31_OverwriteCanGrow ==
    [][(op' = "insert" /\ ~panicked' /\ ~retIns') =>
          /\ get(table, lastKey') # None
          /\ len' = len
          /\ resized' = ExceedsThreshold(load_factor(table))
          /\ alloc' = IF resized' THEN 2 * alloc ELSE alloc]_vars

\* the one key of a table was inserted again: the call returned false, len
\* is still 1 and the table has twice the cells it was built with
C31_Witness ==
    /\ Inserted /\ ~retIns /\ resized
    /\ nAdded = 1 /\ nRemoved = 0 /\ len = 1
    /\ alloc = 2 * startAlloc

\* C32: a remove that returns a value unlinks exactly the matching node,
\* the first entry of the key's chain that holds the key: the entries in
\* front of it stay where they were, the successor of the removed node
\* takes its place (in the cell itself when the node was the head) with
\* the rest of the chain behind it in the order it had, and every other
\* cell is left as it was
C32_RemoveUnlinksOneNode ==
    [][(op' = "remove" /\ ~panicked' /\ retOpt' # None) =>
          LET i == hpulse(lastKey', alloc) + 1
              chain == cells[i]
              j == unlinkedAt'
          IN  /\ j \in 1..Len(chain)
              /\ chain[j].key = lastKey'
              /\ \A p \in 1..(j - 1) : chain[p].key # lastKey'
              /\ Len(cells'[i]) = Len(chain) - 1
              /\ \A p \in 1..(j - 1) : cells'[i][p] = chain[p]
              /\ \A p \in j..(Len(chain) - 1) : cells'[i][p] = chain[p + 1]
              /\ j = 1 => cells'[i] = Tail(chain)
              /\ alloc' = alloc
              /\ \A c \in 1..Len(cells) : c # i => cells'[c] = cells[c]]_vars

\* the second of three chained entries was removed: its predecessor is
\* still the head of the cell and its successor is linked behind the head
C32_Witness ==
    /\ op = "remove" /\ ~panicked /\ retOpt # None /\ unlinkedAt = 2
    /\ nAdded = 4 /\ len = 3
    /\ \E i \in 1..Len(cells) :
          /\ Len(cells[i]) = 2
          /\ lastKey \notin {cells[i][1].key, cells[i][2].key}
          /\ hpulse(lastKey, alloc) + 1 = i

\* C33: the capacity changes only inside insert and only by one doubling:
\* a step that changes alloc is an insert and leaves exactly twice the
\* alloc it found, and the alloc of every state is the alloc the table was
\* built with times a power of two
C33_OneDoublingPerInsert ==
    [][/\ alloc' # alloc => (op' = "insert" /\ alloc' = 2 * alloc)
       /\ op' = "insert" => alloc' \in {alloc, 2 * alloc}
       /\ \E j \in 0..MaxAdded : alloc' = startAlloc * (2 ^ j)]_vars

\* an insert has just doubled, for the third time, a table built with one
\* cell
C33_Witness ==
    /\ Inserted /\ resized
    /\ startAlloc = 1 /\ alloc = 8

\* C34: the load bound: in every state of a table built with at least one
\* cell, 4 * (len - 1) <= 3 * alloc, and the entries stored in the chains,
\* which are never more than len, keep the same bound, whatever inserts,
\* overwrites and removes came before
C34_LoadBound ==
    startAlloc >= 1 =>
        /\ 4 * (len - 1) <= 3 * alloc
        /\ NodesFrom(cells, 1) <= len
        /\ 4 * (NodesFrom(cells, 1) - 1) <= 3 * alloc

\* the bound is met: an insert has raised len to four in a table of four
\* cells without growing it, and the chains hold fewer entries than len
C34_Witness ==
    /\ Inserted /\ retIns /\ ~resized
    /\ startAlloc >= 1
    /\ 4 * (len - 1) = 3 * alloc
    /\ NodesFrom(cells, 1) < len

\* C35: the bucket array and the alloc field stay coupled: in every state
\* cells has exactly alloc cells, so the index hpulse(key, alloc) of every
\* key is a position of cells whenever hpulse returns one (alloc > 0), and
\* the bound cells.len() of the iterator is the capacity: an iterator that
\* has moved past allocation() cells is exhausted
C35_CellsMatchAlloc ==
    /\ Len(cells) = alloc
    /\ alloc > 0 => \A k \in Keys : hpulse(k, alloc) + 1 \in 1..Len(cells)
    /\ Len(cells) = allocation(table)
    /\ next(table, [index |-> allocation(table)]).item = None

\* an insert has doubled a table of one cell and put its key into the last
\* of the two cells
C35_Witness ==
    /\ Inserted /\ resized /\ retIns
    /\ alloc = 2 /\ Len(cells) = 2
    /\ hpulse(lastKey, alloc) + 1 = Len(cells)
    /\ HasKey(cells[2], lastKey)
====
